---------------------------- MODULE Spec2Model ----------------------------
(***************************************************************************)
(* Collation and alignment of successive uploads of crystal datasets      *)
(* (xchemalign).                                                           *)
(*                                                                         *)
(* The state is the output root on disk (the version directories upload_N  *)
(* and the documents inside them, the alignment state under each of them), *)
(* the operator's configuration, and the fields of the one Collator or     *)
(* Aligner object of the running process.  Spec is the collator with the   *)
(* operator's actions; SpecFaults adds failing copies and a death while    *)
(* writing; SpecAligner runs the aligner beside the collator.  Python dicts*)
(* are functions whose DOMAIN is the set of keys present, so that a key    *)
(* that is absent (KeyError) differs from a key holding None.              *)
(***************************************************************************)
EXTENDS Integers, Sequences, FiniteSets, TLC

VARIABLES
    fs,                    \* output root: version index -> (file name -> content)
    config,                \* the operator's configuration document
    pc,                    \* position of the process inside main() / Collator.run
    runs,                  \* number of invocations of main() so far
    meta,                  \* the metadata dict handed to run(); mutated in place
    version_dir,           \* Collator.version_dir: {} is None, {v} is upload_v
    meta_history,          \* Collator.meta_history
    all_xtals,             \* Collator.all_xtals
    new_or_updated_xtals,  \* Collator.new_or_updated_xtals
    errors,                \* messages logged at level 2
    warnings,              \* messages logged at level 1 / logger.warn
    cli,                   \* the command of the process, its --validate flag
                           \* and the number of errors validate() reported
    store,                 \* alignment state kept under each version directory
    al                     \* locals of Aligner._perform_alignments

vars == <<fs, config, pc, runs, meta, version_dir, meta_history,
          all_xtals, new_or_updated_xtals, errors, warnings, cli, store, al>>

----------------------------------------------------------------------------
(* Bounds *)

\* version directories are drawn from upload_1 .. upload_MaxVersion
MaxVersion == 3
\* invocations of main()
MaxRuns == 2

Tags == {"ABC123", "XYZ999"}
Reasons == {"low resolution"}
\* LastUpdatedDate values, as <<year, month, day>>
Dates == {<<2024, 1, 1>>, <<2024, 2, 1>>}

----------------------------------------------------------------------------
(* Python values *)

\* None (and any other falsy scalar): `if x:` / `not x` test against it
None == <<>>

EmptyDict == <<>>

\* d[k] = v on a dict
SetKey(d, k, v) == (k :> v) @@ d

Max(S) == CHOOSE x \in S : \A y \in S : y <= x

_METADATA_FILENAME == "metadata.yaml"
_CONFIG_FILENAME == "config.yaml"

----------------------------------------------------------------------------
(* The validated input of one upload *)

\* the files SoakDB names for a crystal (a path, or None for an empty column)
SoakDBFiles(t) ==
    [xtal_pdb |-> <<"model_building", t, "refine.pdb">>,
     xtal_mtz |-> <<"model_building", t, "refine.mtz">>,
     ligand_cif |-> IF t = "ABC123" THEN <<"model_building", t, "ligand.cif">>
                    ELSE None]

\* the record validate_metadata builds for one crystal: the key last_updated
\* is set only when the row has a LastUpdatedDate
ValidatedXtals(t) ==
    {[crystallographic_files |-> SoakDBFiles(t)]}
    \cup {[last_updated |-> d, crystallographic_files |-> SoakDBFiles(t)] : d \in Dates}

ValidatedMetas ==
    UNION {{[crystals |-> c] :
              c \in {f \in [S -> UNION {ValidatedXtals(t) : t \in Tags}] :
                        \A t \in S : f[t] \in ValidatedXtals(t)}} :
           S \in SUBSET Tags}

----------------------------------------------------------------------------
(* utils *)

\* utils.to_datetime: parse a timestamp string into a comparable datetime
to_datetime(s) == (s[1] * 12 + s[2]) * 31 + s[3]

\* utils.gen_sha256: digest of a file's bytes
gen_sha256(bytes) == <<"sha256", bytes>>

\* the bytes of an input file
InputBytes(path) == <<"bytes", path>>


\* validator.prepend_base: the input path below the configured base_dir
prepend_base(filepath) == <<"base_dir">> \o filepath

----------------------------------------------------------------------------
(* Collator._read_versions *)

\* variant: the directory test made once instead of in a loop
MutScanVersionsOnce(dirs, version) ==
    IF version \in dirs THEN version + 1 ELSE version

\* the `while True` scan: the first index, counting from `version`, for which
\* no version directory exists
RECURSIVE ScanVersions(_, _)
ScanVersions(dirs, version) ==
    IF version \in dirs THEN ScanVersions(dirs, version + 1) ELSE version

\* the working version is one less than the value the scan stopped at
WorkingVersion(dirs) == ScanVersions(dirs, 1) - 1

\* variant: a missing metadata document is skipped and the scan goes on
RECURSIVE MutReadHistorySkipsMissing(_, _, _, _)
MutReadHistorySkipsMissing(files, v, version, history) ==
    IF v >= version THEN [ok |-> TRUE, meta_history |-> history]
    ELSE IF v \in DOMAIN files /\ _METADATA_FILENAME \in DOMAIN files[v]
         THEN MutReadHistorySkipsMissing(files, v + 1, version,
                          Append(history, files[v][_METADATA_FILENAME]))
         ELSE MutReadHistorySkipsMissing(files, v + 1, version, history)

\* `for v in range(1, version)`: append each earlier version's metadata
\* document, stop at the first one that is missing
RECURSIVE ReadHistory(_, _, _, _)
ReadHistory(files, v, version, history) ==
    IF v >= version THEN [ok |-> TRUE, meta_history |-> history]
    ELSE IF v \in DOMAIN files /\ _METADATA_FILENAME \in DOMAIN files[v]
         THEN ReadHistory(files, v + 1, version,
                          Append(history, files[v][_METADATA_FILENAME]))
         ELSE [ok |-> FALSE, meta_history |-> history]

----------------------------------------------------------------------------
(* Collator._copy_files *)

FileKeys == {"xtal_pdb", "xtal_mtz", "ligand_cif"}

Extension(key) ==
    CASE key = "xtal_pdb" -> "pdb"
      [] key = "xtal_mtz" -> "mtz"
      [] key = "ligand_cif" -> "cif"

\* the name of the copy inside the crystal's directory: name + '.pdb', ...
OutputName(name, key) == <<name, Extension(key)>>

\* pdb_output, mtz_output, cif_output: <cryst_dir>/<name>/<name>.<ext>
OutputPath(v, name, key) ==
    <<"upload", v, "crystallographic", name, OutputName(name, key)>>

KeyOf(name, filename) ==
    CHOOSE key \in FileKeys : OutputName(name, key) = filename

\* the content of <cryst_dir>/<name> after the copies: one file per declared
\* (truthy) entry, holding the bytes of the input file
CopiedDir(name, xtal_files) ==
    [filename \in {OutputName(name, k) : k \in {k \in FileKeys : xtal_files[k] # None}} |->
        InputBytes(prepend_base(xtal_files[KeyOf(name, filename)]))]

\* variant: the entry keeps the location of the input file
MutIngestedFilesInputPath(v, name, xtal_files) ==
    [key \in FileKeys |->
        IF xtal_files[key] # None
        THEN [file |-> prepend_base(xtal_files[key]),
              sha256 |-> gen_sha256(CopiedDir(name, xtal_files)[OutputName(name, key)])]
        ELSE None]

\* xtal_files after the in-place replacement of each declared entry by
\* {file, sha256}; the digest is taken of the copied file
IngestedFiles(v, name, xtal_files) ==
    [key \in FileKeys |->
        IF xtal_files[key] # None
        THEN [file |-> OutputPath(v, name, key),
              sha256 |-> gen_sha256(CopiedDir(name, xtal_files)[OutputName(name, key)])]
        ELSE None]

\* the '... entry missing for <name>' warnings
MissingEntries(crystals) ==
    {w \in {<<"entry missing", n, k>> : n \in DOMAIN crystals, k \in FileKeys} :
        crystals[w[2]].crystallographic_files[w[3]] = None}

----------------------------------------------------------------------------
(* Collator._munge_history *)

\* lines 188-191: the user defined deprecations, {} when the keys are absent
Deprecations(cfg) ==
    IF "overrides" \in DOMAIN cfg /\ "deprecations" \in DOMAIN cfg["overrides"]
    THEN cfg["overrides"]["deprecations"]
    ELSE EmptyDict

\* variant: the first document that holds a tag keeps its entry
RECURSIVE MutFoldHistoryFirstWins(_, _)
MutFoldHistoryFirstWins(history, acc) ==
    IF history = <<>> THEN acc
    ELSE LET xtals == Head(history)["crystals"]
         IN  MutFoldHistoryFirstWins(Tail(history),
                 [t \in DOMAIN acc \cup DOMAIN xtals |->
                     IF t \in DOMAIN acc THEN acc[t] ELSE xtals[t]])

\* variant: only the latest historical document is looked at
MutFoldHistoryLatestOnly(history, acc) ==
    IF history = <<>> THEN acc
    ELSE history[Len(history)]["crystals"]

\* lines 195-203: every historical document, in order, overwrites the running
\* entry of each of its tags with its own record
RECURSIVE FoldHistory(_, _)
FoldHistory(history, acc) ==
    IF history = <<>> THEN acc
    ELSE LET xtals == Head(history)["crystals"]
         IN  FoldHistory(Tail(history),
                 [t \in DOMAIN acc \cup DOMAIN xtals |->
                     IF t \in DOMAIN xtals THEN xtals[t] ELSE acc[t]])

\* lines 213-216 for a tag found in the running map: reading a last_updated
\* key that is absent raises KeyError, and the warning's format string has
\* three fields for one argument, so formatting it raises IndexError
DateLookupRaises(old_xtal_data, xtal_data) ==
    \/ "last_updated" \notin DOMAIN old_xtal_data
    \/ "last_updated" \notin DOMAIN xtal_data
    \/ old_xtal_data["last_updated"] = None
    \/ xtal_data["last_updated"] = None

\* variant: the comparison of line 219 the wrong way round
MutIsUpdatedReversed(old_date, new_date) ==
    to_datetime(new_date) < to_datetime(old_date)

\* variant: an equal timestamp counts as an update
MutIsUpdatedOrEqual(old_date, new_date) ==
    to_datetime(new_date) >= to_datetime(old_date)

\* line 219: is the xtal updated
IsUpdated(old_date, new_date) == to_datetime(new_date) > to_datetime(old_date)

\* variant: a tag that history does not know is marked as an update
MutComputedStatusNewAsSupersedes(hist, xtal_name, xtal_data) ==
    IF xtal_name \in DOMAIN hist
    THEN IF IsUpdated(hist[xtal_name]["last_updated"], xtal_data["last_updated"])
         THEN "supersedes"
         ELSE "unchanged"
    ELSE "supersedes"

\* lines 211-228: the status computed for a tag of the current upload, given
\* the running map built from history
ComputedStatus(hist, xtal_name, xtal_data) ==
    IF xtal_name \in DOMAIN hist
    THEN IF IsUpdated(hist[xtal_name]["last_updated"], xtal_data["last_updated"])
         THEN "supersedes"
         ELSE "unchanged"
    ELSE "new"

\* lines 218, 222, 228: membership of new_or_updated_xtals is decided with
\* the computed status, before the deprecations are looked at
IsNewOrUpdated(hist, xtal_name, xtal_data) ==
    ComputedStatus(hist, xtal_name, xtal_data) \in {"new", "supersedes"}

\* lines 232-234: a deprecation overrides the status and adds the reason
ApplyDeprecation(deprecations, xtal_name, xtal_data) ==
    IF xtal_name \in DOMAIN deprecations
    THEN SetKey(SetKey(xtal_data, "status", "deprecated"),
                "reason", deprecations[xtal_name])
    ELSE xtal_data

\* the dict object xtal_data of a tag when the loop body has run for it; the
\* same object is the value in meta['crystals'], all_xtals and
\* new_or_updated_xtals
MungedXtal(hist, deprecations, xtal_name, xtal_data) ==
    ApplyDeprecation(deprecations, xtal_name,
        SetKey(xtal_data, "status", ComputedStatus(hist, xtal_name, xtal_data)))

\* whether the loop over the current upload raises
MungeRaises(hist, xtals) ==
    \E t \in DOMAIN xtals :
        t \in DOMAIN hist /\ DateLookupRaises(hist[t], xtals[t])

\* the objects meta['crystals'] holds when the loop has completed
MungedCrystals(hist, deprecations, xtals) ==
    [t \in DOMAIN xtals |-> MungedXtal(hist, deprecations, t, xtals[t])]

\* variant: a deprecated xtal is left out of all_xtals
MutAllXtalsDropDeprecated(hist, munged) ==
    [t \in {x \in DOMAIN hist \cup DOMAIN munged :
                x \in DOMAIN munged => munged[x]["status"] # "deprecated"} |->
        IF t \in DOMAIN munged THEN munged[t] ELSE hist[t]]

\* all_xtals: the running map with every tag of the current upload set
AllXtals(hist, munged) ==
    [t \in DOMAIN hist \cup DOMAIN munged |->
        IF t \in DOMAIN munged THEN munged[t] ELSE hist[t]]

\* new_or_updated_xtals
NewOrUpdatedXtals(hist, xtals, munged) ==
    [t \in {t \in DOMAIN xtals : IsNewOrUpdated(hist, t, xtals[t])} |-> munged[t]]

----------------------------------------------------------------------------
(* The process: main() and the stages of Collator.run *)

\* no process is running
NoCommand == [command |-> "none", validate |-> FALSE, num_errors |-> 0]

\* the numbers of errors validate() may report
ErrorCounts == {0, 1}

Init ==
    /\ fs = EmptyDict
    /\ config = EmptyDict
    /\ pc = "idle"
    /\ runs = 0
    /\ meta = EmptyDict
    /\ version_dir = {}
    /\ meta_history = <<>>
    /\ all_xtals = None
    /\ new_or_updated_xtals = None
    /\ errors = {}
    /\ warnings = {}
    /\ cli = NoCommand
    /\ store = EmptyDict
    /\ al = EmptyDict

\* the operator creates a version directory under the output root
MkVersionDir(v) ==
    /\ pc = "idle"
    /\ runs < MaxRuns
    /\ v \notin DOMAIN fs
    /\ fs' = (v :> EmptyDict) @@ fs
    /\ UNCHANGED <<config, pc, runs, meta, version_dir, meta_history,
                   all_xtals, new_or_updated_xtals, errors, warnings>>
    /\ UNCHANGED <<cli, store, al>>

\* the operator declares a deprecation in the configuration file
DeclareDeprecation(t, reason) ==
    /\ pc = "idle"
    /\ runs < MaxRuns
    /\ t \notin DOMAIN Deprecations(config)
    /\ config' = [overrides |->
                    [deprecations |-> SetKey(Deprecations(config), t, reason)]]
    /\ UNCHANGED <<fs, pc, runs, meta, version_dir, meta_history,
                   all_xtals, new_or_updated_xtals, errors, warnings>>
    /\ UNCHANGED <<cli, store, al>>

\* variant: the errors of validation are not looked at
MutMainIgnoresErrors(m, validate, num_errors) ==
    /\ pc = "idle"
    /\ runs < MaxRuns
    /\ runs' = runs + 1
    /\ cli' = [command |-> "collator", validate |-> validate,
               num_errors |-> num_errors]
    /\ version_dir' = {}
    /\ meta_history' = <<>>
    /\ all_xtals' = None
    /\ new_or_updated_xtals' = None
    /\ warnings' = {}
    /\ errors' = IF num_errors = 0 THEN {} ELSE {"validation error"}
    /\ IF ~validate
       THEN /\ meta' = m
            /\ pc' = "run"
       ELSE /\ meta' = EmptyDict
            /\ pc' = "validated"
    /\ UNCHANGED <<fs, config, store, al>>

\* main() of the collator: a Collator is constructed (__init__), validate()
\* hands back the metadata of the upload and the number of errors logged,
\* and run(meta) is entered, or the process exits with code 1, or main returns
Main(m, validate, num_errors) ==
    /\ pc = "idle"
    /\ runs < MaxRuns
    /\ runs' = runs + 1
    /\ cli' = [command |-> "collator", validate |-> validate,
               num_errors |-> num_errors]
    /\ version_dir' = {}
    /\ meta_history' = <<>>
    /\ all_xtals' = None
    /\ new_or_updated_xtals' = None
    /\ warnings' = {}
    /\ errors' = IF num_errors = 0 THEN {} ELSE {"validation error"}
    /\ IF ~validate
       THEN IF num_errors # 0
            THEN /\ meta' = EmptyDict
                 /\ pc' = "exit1"
            ELSE /\ meta' = m
                 /\ pc' = "run"
       ELSE /\ meta' = EmptyDict
            /\ pc' = "validated"
    /\ UNCHANGED <<fs, config, store, al>>

\* variant: a missing upload_1 is created instead of being reported
MutReadVersionsCreates ==
    /\ pc = "run"
    /\ LET version == ScanVersions(DOMAIN fs, 1)
           read == ReadHistory(fs, 1, WorkingVersion(DOMAIN fs), meta_history)
       IN  IF version = 1
           THEN /\ fs' = (1 :> EmptyDict) @@ fs
                /\ version_dir' = {1}
                /\ pc' = "versions_read"
                /\ UNCHANGED <<errors, meta_history>>
           ELSE IF read.ok
           THEN /\ version_dir' = {WorkingVersion(DOMAIN fs)}
                /\ meta_history' = read.meta_history
                /\ pc' = "versions_read"
                /\ UNCHANGED <<fs, errors>>
           ELSE /\ meta_history' = read.meta_history
                /\ errors' = errors \cup {"Metadata file not found",
                                          "Error with version dir"}
                /\ pc' = "failed"
                /\ UNCHANGED <<fs, version_dir>>
    /\ UNCHANGED <<config, runs, meta, all_xtals, new_or_updated_xtals,
                   warnings>>
    /\ UNCHANGED <<cli, store, al>>

\* variant: a working version directory that already holds a metadata
\* document is left alone and the next version directory is made for the run
MutReadVersionsAdvances ==
    /\ pc = "run"
    /\ LET version == ScanVersions(DOMAIN fs, 1)
           read == ReadHistory(fs, 1, WorkingVersion(DOMAIN fs), meta_history)
       IN  IF version = 1
           THEN /\ errors' = errors \cup {"No version directory found",
                                          "Error with version dir"}
                /\ pc' = "failed"
                /\ UNCHANGED <<fs, version_dir, meta_history>>
           ELSE IF read.ok /\ _METADATA_FILENAME \in DOMAIN fs[version - 1]
           THEN /\ fs' = (version :> EmptyDict) @@ fs
                /\ version_dir' = {version}
                /\ meta_history' = Append(read.meta_history,
                                          fs[version - 1][_METADATA_FILENAME])
                /\ pc' = "versions_read"
                /\ UNCHANGED errors
           ELSE IF read.ok
           THEN /\ version_dir' = {WorkingVersion(DOMAIN fs)}
                /\ meta_history' = read.meta_history
                /\ pc' = "versions_read"
                /\ UNCHANGED <<fs, errors>>
           ELSE /\ meta_history' = read.meta_history
                /\ errors' = errors \cup {"Metadata file not found",
                                          "Error with version dir"}
                /\ pc' = "failed"
                /\ UNCHANGED <<fs, version_dir>>
    /\ UNCHANGED <<config, runs, meta, all_xtals, new_or_updated_xtals,
                   warnings>>
    /\ UNCHANGED <<cli, store, al>>

\* v_dir = self._read_versions(), and run's `if not v_dir` return
ReadVersions ==
    /\ pc = "run"
    /\ LET version == ScanVersions(DOMAIN fs, 1)
           read == ReadHistory(fs, 1, WorkingVersion(DOMAIN fs), meta_history)
       IN  IF version = 1
           THEN /\ errors' = errors \cup {"No version directory found",
                                          "Error with version dir"}
                /\ pc' = "failed"
                /\ UNCHANGED <<version_dir, meta_history>>
           ELSE IF read.ok
           THEN /\ version_dir' = {WorkingVersion(DOMAIN fs)}
                /\ meta_history' = read.meta_history
                /\ pc' = "versions_read"
                /\ UNCHANGED errors
           ELSE /\ meta_history' = read.meta_history
                /\ errors' = errors \cup {"Metadata file not found",
                                          "Error with version dir"}
                /\ pc' = "failed"
                /\ UNCHANGED version_dir
    /\ UNCHANGED <<fs, config, runs, meta, all_xtals, new_or_updated_xtals,
                   warnings>>
    /\ UNCHANGED <<cli, store, al>>

\* variant: only the datasets unknown to the history are copied
MutCopyFilesOnlyNew ==
    /\ pc = "versions_read"
    /\ LET v == CHOOSE x \in version_dir : TRUE
           crystals == meta["crystals"]
           known == DOMAIN FoldHistory(meta_history, EmptyDict)
       IN  /\ fs' = [fs EXCEPT ![v] =
                        SetKey(fs[v], "crystallographic",
                            [name \in DOMAIN crystals \ known |->
                                CopiedDir(name, crystals[name]["crystallographic_files"])])]
           /\ meta' = [meta EXCEPT !["crystals"] =
                        [name \in DOMAIN crystals |->
                            IF name \in known THEN crystals[name]
                            ELSE [crystals[name] EXCEPT !["crystallographic_files"] =
                                    IngestedFiles(v, name, @)]]]
           /\ warnings' = warnings \cup MissingEntries(crystals)
    /\ pc' = "copied"
    /\ UNCHANGED <<config, runs, version_dir, meta_history, all_xtals,
                   new_or_updated_xtals, errors>>
    /\ UNCHANGED <<cli, store, al>>

\* new_meta = self._copy_files(meta): cryst_dir is removed and made again, each
\* declared file is copied, and meta is updated in place
CopyFiles ==
    /\ pc = "versions_read"
    /\ LET v == CHOOSE x \in version_dir : TRUE
           crystals == meta["crystals"]
       IN  /\ fs' = [fs EXCEPT ![v] =
                        SetKey(fs[v], "crystallographic",
                            [name \in DOMAIN crystals |->
                                CopiedDir(name, crystals[name]["crystallographic_files"])])]
           /\ meta' = [meta EXCEPT !["crystals"] =
                        [name \in DOMAIN crystals |->
                            [crystals[name] EXCEPT !["crystallographic_files"] =
                                IngestedFiles(v, name, @)]]]
           /\ warnings' = warnings \cup MissingEntries(crystals)
    /\ pc' = "copied"
    /\ UNCHANGED <<config, runs, version_dir, meta_history, all_xtals,
                   new_or_updated_xtals, errors>>
    /\ UNCHANGED <<cli, store, al>>

\* all_xtals, new_xtals = self._munge_history(meta); an exception leaves run
MungeHistory ==
    /\ pc = "copied"
    /\ LET hist == FoldHistory(meta_history, EmptyDict)
           xtals == meta["crystals"]
           munged == MungedCrystals(hist, Deprecations(config), xtals)
       IN  IF MungeRaises(hist, xtals)
           THEN /\ pc' = "raised"
                /\ UNCHANGED <<meta, all_xtals, new_or_updated_xtals>>
           ELSE /\ meta' = [meta EXCEPT !["crystals"] = munged]
                /\ all_xtals' = AllXtals(hist, munged)
                /\ new_or_updated_xtals' = NewOrUpdatedXtals(hist, xtals, munged)
                /\ pc' = "munged"
    /\ UNCHANGED <<fs, config, runs, version_dir, meta_history, errors, warnings>>
    /\ UNCHANGED <<cli, store, al>>

\* self._write_metadata(new_meta, all_xtals, new_xtals)
WriteMetadata ==
    /\ pc = "munged"
    /\ LET v == CHOOSE x \in version_dir : TRUE
       IN  fs' = [fs EXCEPT ![v] =
                    SetKey(SetKey(SetKey(fs[v],
                        _METADATA_FILENAME, meta),
                        "all_xtals.yaml", all_xtals),
                        "new_xtals.yaml", new_or_updated_xtals)]
    /\ pc' = "written"
    /\ UNCHANGED <<config, runs, meta, version_dir, meta_history, all_xtals,
                   new_or_updated_xtals, errors, warnings>>
    /\ UNCHANGED <<cli, store, al>>

\* variant: the configuration is copied into every version directory
MutCopyConfigEveryVersion ==
    /\ pc = "written"
    /\ fs' = [v \in DOMAIN fs |-> SetKey(fs[v], _CONFIG_FILENAME, config)]
    /\ pc' = "done"
    /\ UNCHANGED <<config, runs, meta, version_dir, meta_history, all_xtals,
                   new_or_updated_xtals, errors, warnings>>
    /\ UNCHANGED <<cli, store, al>>

\* self._copy_config(), and run returns new_meta
CopyConfig ==
    /\ pc = "written"
    /\ LET v == CHOOSE x \in version_dir : TRUE
       IN  fs' = [fs EXCEPT ![v] = SetKey(fs[v], _CONFIG_FILENAME, config)]
    /\ pc' = "done"
    /\ UNCHANGED <<config, runs, meta, version_dir, meta_history, all_xtals,
                   new_or_updated_xtals, errors, warnings>>
    /\ UNCHANGED <<cli, store, al>>

\* the process ends: run returned (new_meta or None) or an exception left it
Exit ==
    /\ pc \in {"done", "failed", "raised", "exit1", "validated",
                "copy_failed", "crashed", "a_written"}
    /\ pc' = "idle"
    /\ cli' = NoCommand
    /\ meta' = EmptyDict
    /\ version_dir' = {}
    /\ meta_history' = <<>>
    /\ all_xtals' = None
    /\ new_or_updated_xtals' = None
    /\ errors' = {}
    /\ warnings' = {}
    /\ al' = EmptyDict
    /\ UNCHANGED <<fs, config, runs, store>>

Next ==
    \/ \E v \in 1..MaxVersion : MkVersionDir(v)
    \/ \E t \in Tags, reason \in Reasons : DeclareDeprecation(t, reason)
    \/ \E m \in ValidatedMetas, validate \in BOOLEAN, num_errors \in ErrorCounts :
            Main(m, validate, num_errors)
    \/ ReadVersions
    \/ CopyFiles
    \/ MungeHistory
    \/ WriteMetadata
    \/ CopyConfig
    \/ Exit

Spec == Init /\ [][Next]_vars

----------------------------------------------------------------------------
(* Runs that meet a failing copy or die while writing, on an output root    *)
(* whose first upload has been collated and whose second is still empty     *)

\* the uploads of these runs: every crystal carries the same timestamp
FaultMetas ==
    {m \in ValidatedMetas :
        \A t \in DOMAIN m["crystals"] :
            /\ "last_updated" \in DOMAIN m["crystals"][t]
            /\ m["crystals"][t]["last_updated"] = <<2024, 1, 1>>}

\* meta after _copy_files has replaced every declared entry
IngestedMeta(v, m) ==
    [m EXCEPT !["crystals"] =
        [name \in DOMAIN m["crystals"] |->
            [m["crystals"][name] EXCEPT !["crystallographic_files"] =
                IngestedFiles(v, name, @)]]]

\* what a completed run() leaves in an empty version directory v
CollatedDir(v, history, m, cfg) ==
    LET hist == FoldHistory(history, EmptyDict)
        xtals == IngestedMeta(v, m)["crystals"]
        munged == MungedCrystals(hist, Deprecations(cfg), xtals)
    IN  [f \in {"crystallographic", _METADATA_FILENAME, "all_xtals.yaml",
                "new_xtals.yaml", _CONFIG_FILENAME} |->
            CASE f = "crystallographic" ->
                    [name \in DOMAIN xtals |->
                        CopiedDir(name, m["crystals"][name]["crystallographic_files"])]
              [] f = _METADATA_FILENAME -> [m EXCEPT !["crystals"] = munged]
              [] f = "all_xtals.yaml" -> AllXtals(hist, munged)
              [] f = "new_xtals.yaml" -> NewOrUpdatedXtals(hist, xtals, munged)
              [] f = _CONFIG_FILENAME -> cfg]

InitFaults ==
    /\ \E m \in FaultMetas :
            fs = (1 :> CollatedDir(1, <<>>, m, EmptyDict)) @@ (2 :> EmptyDict)
    /\ config = EmptyDict
    /\ pc = "idle"
    /\ runs = 0
    /\ meta = EmptyDict
    /\ version_dir = {}
    /\ meta_history = <<>>
    /\ all_xtals = None
    /\ new_or_updated_xtals = None
    /\ errors = {}
    /\ warnings = {}
    /\ cli = NoCommand
    /\ store = EmptyDict
    /\ al = EmptyDict

\* the order in which _copy_files handles the files of one crystal
KeyOrder == <<"xtal_pdb", "xtal_mtz", "ligand_cif">>

KeyIndex(key) == CHOOSE i \in DOMAIN KeyOrder : KeyOrder[i] = key

\* the crystal's directory and entries when the copy of `key` has raised:
\* the entries handled before it are copied and replaced, the others are not
PartlyCopiedDir(name, xtal_files, key) ==
    [filename \in {OutputName(name, k) :
                     k \in {k \in FileKeys : /\ xtal_files[k] # None
                                              /\ KeyIndex(k) < KeyIndex(key)}} |->
        CopiedDir(name, xtal_files)[filename]]

PartlyIngestedFiles(v, name, xtal_files, key) ==
    [k \in FileKeys |->
        IF KeyIndex(k) < KeyIndex(key)
        THEN IngestedFiles(v, name, xtal_files)[k]
        ELSE xtal_files[k]]

\* variant: a copy that fails is logged and the loop goes on to the next file
MutCopyFilesFailsGoesOn(before, name, key) ==
    /\ pc = "versions_read"
    /\ name \in DOMAIN meta["crystals"]
    /\ before \subseteq DOMAIN meta["crystals"] \ {name}
    /\ meta["crystals"][name]["crystallographic_files"][key] # None
    /\ LET v == CHOOSE x \in version_dir : TRUE
           crystals == meta["crystals"]
       IN  /\ fs' = [fs EXCEPT ![v] =
                        SetKey(fs[v], "crystallographic",
                            [n \in DOMAIN crystals |->
                                IF n = name
                                THEN PartlyCopiedDir(n, crystals[n]["crystallographic_files"], key)
                                ELSE CopiedDir(n, crystals[n]["crystallographic_files"])])]
           /\ meta' = [meta EXCEPT !["crystals"] =
                        [n \in DOMAIN crystals |->
                            [crystals[n] EXCEPT !["crystallographic_files"] =
                                IF n = name
                                THEN PartlyIngestedFiles(v, n, @, key)
                                ELSE IngestedFiles(v, n, @)]]]
           /\ warnings' = warnings \cup MissingEntries(crystals)
    /\ errors' = errors \cup {"Failed to copy"}
    /\ pc' = "copied"
    /\ UNCHANGED <<config, runs, version_dir, meta_history, all_xtals,
                   new_or_updated_xtals, cli, store, al>>

\* _copy_files when shutil.copy2 raises for the file `key` of crystal `name`
\* (the input file is not there), the crystals of `before` having been
\* handled: cryst_dir has been removed and made again, the files handled so
\* far are copied, and the exception leaves run()
CopyFilesFails(before, name, key) ==
    /\ pc = "versions_read"
    /\ name \in DOMAIN meta["crystals"]
    /\ before \subseteq DOMAIN meta["crystals"] \ {name}
    /\ meta["crystals"][name]["crystallographic_files"][key] # None
    /\ LET v == CHOOSE x \in version_dir : TRUE
           crystals == meta["crystals"]
       IN  /\ fs' = [fs EXCEPT ![v] =
                        SetKey(fs[v], "crystallographic",
                            [n \in before \cup {name} |->
                                IF n = name
                                THEN PartlyCopiedDir(n, crystals[n]["crystallographic_files"], key)
                                ELSE CopiedDir(n, crystals[n]["crystallographic_files"])])]
           /\ meta' = [meta EXCEPT !["crystals"] =
                        [n \in DOMAIN crystals |->
                            [crystals[n] EXCEPT !["crystallographic_files"] =
                                IF n \in before THEN IngestedFiles(v, n, @)
                                ELSE IF n = name THEN PartlyIngestedFiles(v, n, @, key)
                                ELSE @]]]
           /\ warnings' = warnings \cup
                    {w \in MissingEntries(crystals) :
                        \/ w[2] \in before
                        \/ w[2] = name /\ KeyIndex(w[3]) < KeyIndex(key)}
    /\ pc' = "copy_failed"
    /\ UNCHANGED <<config, runs, version_dir, meta_history, all_xtals,
                   new_or_updated_xtals, errors, cli, store, al>>

\* a file that open(f, 'w') has truncated and yaml.dump has not completed
PartialDocument == [partial |-> TRUE]

\* the documents _write_metadata writes, in the order it writes them
WrittenDocuments ==
    <<_METADATA_FILENAME, "all_xtals.yaml", "new_xtals.yaml">>

\* _write_metadata when the process dies while it writes its k-th document:
\* the documents before it are written, the k-th is left as open(f, 'w') and
\* the unfinished dump have made it, the later ones are as they were
WriteMetadataCrashes(k) ==
    /\ pc = "munged"
    /\ k \in DOMAIN WrittenDocuments
    /\ LET v == CHOOSE x \in version_dir : TRUE
           new == [f \in {WrittenDocuments[i] : i \in 1..k} |->
                     CASE f = WrittenDocuments[k] -> PartialDocument
                       [] f # WrittenDocuments[k] /\ f = _METADATA_FILENAME -> meta
                       [] f # WrittenDocuments[k] /\ f = "all_xtals.yaml" -> all_xtals]
       IN  fs' = [fs EXCEPT ![v] = new @@ fs[v]]
    /\ pc' = "crashed"
    /\ UNCHANGED <<config, runs, meta, version_dir, meta_history, all_xtals,
                   new_or_updated_xtals, errors, warnings, cli, store, al>>

NextFaults ==
    \/ \E m \in FaultMetas : Main(m, FALSE, 0)
    \/ ReadVersions
    \/ CopyFiles
    \/ \E before \in SUBSET Tags, name \in Tags, key \in FileKeys :
            CopyFilesFails(before, name, key)
    \/ MungeHistory
    \/ WriteMetadata
    \/ \E k \in DOMAIN WrittenDocuments : WriteMetadataCrashes(k)
    \/ CopyConfig
    \/ Exit

SpecFaults == InitFaults /\ [][NextFaults]_vars

----------------------------------------------------------------------------
(* Runs on a third upload, the first two having been collated               *)

\* the uploads of these runs: every crystal carries a timestamp
HistoryMetas ==
    {m \in ValidatedMetas :
        \A t \in DOMAIN m["crystals"] : "last_updated" \in DOMAIN m["crystals"][t]}

InitHistory ==
    /\ \E m1 \in FaultMetas, m2 \in HistoryMetas :
          LET first == CollatedDir(1, <<>>, m1, EmptyDict)
          IN  fs = (1 :> first)
                   @@ (2 :> CollatedDir(2, <<first[_METADATA_FILENAME]>>, m2, EmptyDict))
                   @@ (3 :> EmptyDict)
    /\ config = EmptyDict
    /\ pc = "idle"
    /\ runs = 0
    /\ meta = EmptyDict
    /\ version_dir = {}
    /\ meta_history = <<>>
    /\ all_xtals = None
    /\ new_or_updated_xtals = None
    /\ errors = {}
    /\ warnings = {}
    /\ cli = NoCommand
    /\ store = EmptyDict
    /\ al = EmptyDict

NextHistory ==
    \/ \E reason \in Reasons : DeclareDeprecation("ABC123", reason)
    \/ \E m \in HistoryMetas : Main(m, FALSE, 0)
    \/ ReadVersions
    \/ CopyFiles
    \/ MungeHistory
    \/ WriteMetadata
    \/ CopyConfig
    \/ Exit

SpecHistory == InitHistory /\ [][NextHistory]_vars

----------------------------------------------------------------------------
(* The aligner: main(), Aligner.run and Aligner._perform_alignments         *)

\* utils.Constants
META_STATUS_NEW == "new"

PREVIOUS_OUTPUT_DIR == "previous_output_dir"

METADATA_ALIGN_FILENAME == "meta_aligner.yaml"

META_ALIGNED_FILES == "aligned_files"

\* the path of a version directory, and the empty string
VersionPath(v) == <<"upload", v>>

EmptyString == <<"">>

\* Python truthiness of a path read from the metadata
Truthy(x) == x # None /\ x # EmptyString

\* the mapping categories _perform_alignments loads, one document each
MappingCategories ==
    {"assemblies", "xtalforms", "dataset_assignments", "ligand_neighbourhoods",
     "alignability_graph", "ligand_neighbourhood_transforms", "conformer_sites",
     "conformer_site_transforms", "canonical_sites", "canonical_site_transforms",
     "xtalform_sites", "reference_structure_transforms"}

\* what a root holds: the mapping documents and the alignment-output records
StoreCategories == MappingCategories \cup {"alignments", "reference_alignments"}

\* the arguments of _update that are mapping categories (lines 377-394)
HandedCategories == MappingCategories \ {"canonical_site_transforms"}

\* the alignment state an earlier alignment has left under the version
\* directory `root` for the keys `keys`; each value names the root, the
\* category and the key it was written for
RootDocuments(root, keys) ==
    [c \in StoreCategories |-> [k \in keys |-> <<root, c, k>>]]

\* dt.FSModel.from_dir(path): the alignment-output records found under path
FromDir(path, c) ==
    IF \E v \in DOMAIN store : VersionPath(v) = path
    THEN store[CHOOSE v \in DOMAIN store : VersionPath(v) = path][c]
    ELSE EmptyDict

\* the _load_* functions: the content of the document of category c under path
LoadDocument(path, c) ==
    IF \E v \in DOMAIN store : VersionPath(v) = path
    THEN store[CHOOSE v \in DOMAIN store : VersionPath(v) = path][c]
    ELSE EmptyDict

\* the document each local of lines 289-375 is loaded from
DocumentOf(c) ==
    IF c = "canonical_site_transforms" THEN "conformer_site_transforms" ELSE c

\* get_datasets_from_crystals: the tags of new_datasets
NewDatasets(crystals) ==
    {dtag \in DOMAIN crystals : crystals[dtag]["status"] = META_STATUS_NEW}

\* a crystal of a collated metadata document
CollatedXtal(t, status) ==
    [status |-> status,
     last_updated |-> <<2024, 1, 1>>,
     crystallographic_files |-> IngestedFiles(2, t, SoakDBFiles(t))]

Statuses == {"new", "supersedes", "unchanged", "deprecated"}

\* the metadata documents handed to the aligner: collated crystals, and
\* possibly the location of the previous alignment output
AlignerMetas ==
    LET docs == UNION {[S -> Statuses] : S \in {{}, Tags}}
        xtals(f) == [t \in DOMAIN f |-> CollatedXtal(t, f[t])]
    IN  {[crystals |-> xtals(f)] : f \in docs}
        \cup {[crystals |-> xtals(f), previous_output_dir |-> p] :
                f \in docs, p \in {EmptyString, VersionPath(1), VersionPath(2)}}

\* the upload collated into upload_1 before the aligner is looked at
FirstUpload ==
    CHOOSE m \in FaultMetas : DOMAIN m["crystals"] = {"ABC123"}

InitAligner ==
    /\ \E m \in AlignerMetas :
            fs = (1 :> CollatedDir(1, <<>>, FirstUpload, EmptyDict))
                 @@ (2 :> (_METADATA_FILENAME :> m))
    /\ \E previous \in SUBSET Tags, current \in {{}, {"ABC123"}} :
            store = (1 :> RootDocuments(1, previous))
                    @@ (2 :> RootDocuments(2, current))
    /\ config = EmptyDict
    /\ pc = "idle"
    /\ runs = 0
    /\ meta = EmptyDict
    /\ version_dir = {}
    /\ meta_history = <<>>
    /\ all_xtals = None
    /\ new_or_updated_xtals = None
    /\ errors = {}
    /\ warnings = {}
    /\ cli = NoCommand
    /\ al = EmptyDict

\* Aligner.validate: the errors it appends
AlignerErrors(d, xtalforms_exists) ==
    IF d \notin DOMAIN fs
    THEN {"version dir does not exist"}
    ELSE (IF _METADATA_FILENAME \in DOMAIN fs[d] THEN {}
          ELSE {"metadata file does not exist", "metadata file is not a file"})
         \cup (IF xtalforms_exists THEN {} ELSE {"xtalforms file does not exist"})

\* main() of the aligner for version directory upload_d: an Aligner is
\* constructed, validate() counts its errors, and run() is entered, or the
\* process exits with code 1, or main returns
AlignerMain(d, validate, xtalforms_exists) ==
    /\ pc = "idle"
    /\ runs < MaxRuns
    /\ runs' = runs + 1
    /\ LET found == AlignerErrors(d, xtalforms_exists)
       IN  /\ errors' = found
           /\ cli' = [command |-> "aligner", validate |-> validate,
                      num_errors |-> Cardinality(found)]
           /\ IF ~validate
              THEN IF Cardinality(found) # 0
                   THEN pc' = "exit1"
                   ELSE pc' = "a_run"
              ELSE pc' = "validated"
    /\ version_dir' = {d}
    /\ warnings' = {}
    /\ meta' = EmptyDict
    /\ meta_history' = <<>>
    /\ all_xtals' = None
    /\ new_or_updated_xtals' = None
    /\ al' = EmptyDict
    /\ UNCHANGED <<fs, config, store>>

\* Aligner.run, lines 211-215: the metadata is read and aligned_dir is made
AlignerRun ==
    /\ pc = "a_run"
    /\ LET d == CHOOSE x \in version_dir : TRUE
       IN  /\ meta' = fs[d][_METADATA_FILENAME]
           /\ fs' = IF META_ALIGNED_FILES \in DOMAIN fs[d] THEN fs
                    ELSE [fs EXCEPT ![d] = SetKey(fs[d], META_ALIGNED_FILES, EmptyDict)]
    /\ pc' = "a_started"
    /\ UNCHANGED <<config, runs, version_dir, meta_history, all_xtals,
                   new_or_updated_xtals, errors, warnings, cli, store, al>>

\* _perform_alignments, lines 244-394: the previous and the current root are
\* loaded, the old data is linked, the datasets are chosen, every category is
\* loaded and _update is called; an exception leaves run()
PerformAlignments ==
    /\ pc = "a_started"
    /\ LET d == CHOOSE x \in version_dir : TRUE
           crystals == meta["crystals"]
           previous_output_path ==
               IF PREVIOUS_OUTPUT_DIR \in DOMAIN meta
               THEN meta[PREVIOUS_OUTPUT_DIR] ELSE None
           output_path == VersionPath(d)
           source == IF Truthy(previous_output_path)
                     THEN previous_output_path ELSE output_path
           loaded == [c \in MappingCategories |-> LoadDocument(source, DocumentOf(c))]
       IN  IF crystals = EmptyDict
           THEN /\ errors' = errors \cup {"Did not find any crystals"}
                /\ pc' = "raised"
                /\ UNCHANGED al
           ELSE IF previous_output_path = None
           THEN /\ pc' = "raised"
                /\ UNCHANGED <<errors, al>>
           ELSE /\ al' = [source |-> IF Truthy(previous_output_path)
                                     THEN {previous_output_path} ELSE {},
                          alignments |-> FromDir(source, "alignments"),
                          reference_alignments |-> FromDir(source, "reference_alignments"),
                          symlinked |-> (previous_output_path # output_path),
                          datasets |-> DOMAIN crystals,
                          new_datasets |-> NewDatasets(crystals),
                          loaded |-> loaded,
                          handed |-> [c \in HandedCategories |-> loaded[c]]]
                /\ pc' = "a_updated"
                /\ UNCHANGED errors
    /\ UNCHANGED <<fs, config, runs, meta, version_dir, meta_history, all_xtals,
                   new_or_updated_xtals, warnings, cli, store>>

\* _update (ligand_neighbourhood_alignment), as the call of lines 377-394
\* relies on it: the datasets of `aligned`, chosen among new_datasets, are
\* aligned, their records are added to fs_model.alignments, and every category
\* handed over is persisted, with their entries, under the current root
Update(aligned) ==
    /\ pc = "a_updated"
    /\ aligned \subseteq al.new_datasets
    /\ LET cur == CHOOSE d \in version_dir : TRUE
           alignments == [t \in DOMAIN al.alignments \cup aligned |->
                            IF t \in aligned THEN <<cur, "alignments", t>>
                            ELSE al.alignments[t]]
           persisted(c) == [k \in DOMAIN al.handed[c] \cup aligned |->
                              IF k \in aligned THEN <<cur, c, k>>
                              ELSE al.handed[c][k]]
       IN  /\ al' = [al EXCEPT !.alignments = alignments]
           /\ store' = [store EXCEPT ![cur] =
                          [c \in StoreCategories |->
                              IF c = "alignments" THEN alignments
                              ELSE IF c \in HandedCategories THEN persisted(c)
                              ELSE store[cur][c]]]
    /\ pc' = "a_aligned"
    /\ UNCHANGED <<fs, config, runs, meta, version_dir, meta_history, all_xtals,
                   new_or_updated_xtals, errors, warnings, cli>>

\* the (chain, ligand residue, site) entries of a dataset's aligned files
EntryKeys == {<<"A", "LIG1", "site0">>}

\* the sections of new_meta that are not datasets
SectionKeys ==
    {"xtalforms", "conformer_sites", "canonical_sites", "xtalform_sites", "transforms"}

\* lines 515-540: the aligned files of a dataset, one record of paths for each
\* chain, ligand residue and site of its alignment-output record
AlignedFiles(dtag) ==
    [e \in EntryKeys |-> [aligned_structure |-> al.alignments[dtag]]]

\* lines 396-598: new_meta as it is before _extract_components
NewMeta(crystals, documents) ==
    [k \in SectionKeys \cup (DOMAIN crystals \cap DOMAIN al.alignments) |->
        CASE k = "xtalforms" ->
                [x \in DOMAIN documents["xtalforms"] |->
                    [xtalform_reference |-> documents["xtalforms"][x]]]
          [] k = "conformer_sites" -> documents["conformer_sites"]
          [] k = "canonical_sites" -> documents["canonical_sites"]
          [] k = "xtalform_sites" -> documents["xtalform_sites"]
          [] k = "transforms" ->
                [observation_to_conformer_sites |->
                    documents["ligand_neighbourhood_transforms"],
                 conformer_sites_to_canon |-> documents["conformer_site_transforms"]]
          [] k \notin SectionKeys ->
                [assigned_xtalform |-> documents["dataset_assignments"][k],
                 aligned_files |-> AlignedFiles(k)]]

\* variant: a dataset without an alignment-output record is given empty
\* aligned files instead of being skipped
MutAssembleMetaNoSkip ==
    /\ pc = "a_aligned"
    /\ LET cur == CHOOSE d \in version_dir : TRUE
           crystals == meta["crystals"]
           skipped == DOMAIN crystals \ DOMAIN al.alignments
       IN  al' = SetKey(al, "new_meta",
                    [k \in skipped |-> [assigned_xtalform |-> None,
                                        aligned_files |-> EmptyDict]]
                    @@ NewMeta(crystals, store[cur]))
    /\ pc' = "a_assembled"
    /\ UNCHANGED <<fs, config, runs, meta, version_dir, meta_history, all_xtals,
                   new_or_updated_xtals, errors, warnings, cli, store>>

\* _perform_alignments, lines 396-598: new_meta is assembled from the
\* documents of the current root and from fs_model.alignments; a dataset
\* without an alignment-output record is skipped, and a dataset without an
\* assignment raises KeyError
AssembleMeta ==
    /\ pc = "a_aligned"
    /\ LET cur == CHOOSE d \in version_dir : TRUE
           crystals == meta["crystals"]
       IN  IF \E dtag \in DOMAIN crystals \cap DOMAIN al.alignments :
                  dtag \notin DOMAIN store[cur]["dataset_assignments"]
           THEN /\ pc' = "raised"
                /\ UNCHANGED al
           ELSE /\ al' = SetKey(al, "new_meta", NewMeta(crystals, store[cur]))
                /\ pc' = "a_assembled"
    /\ UNCHANGED <<fs, config, runs, meta, version_dir, meta_history, all_xtals,
                   new_or_updated_xtals, errors, warnings, cli, store>>

\* what _extract_components finds for the aligned structure of a dataset
Outcomes == {"ok", "missing", "invalid"}

\* ignore_keys of _extract_components
ignore_keys == {"conformer_sites", "canonical_sites", "xtalform_sites"}

\* the keys of aligner_meta whose aligned files are walked
Extracted(aligner_meta) ==
    {k1 \in DOMAIN aligner_meta :
        k1 \notin ignore_keys /\ META_ALIGNED_FILES \in DOMAIN aligner_meta[k1]}

\* lines 622-627: crystals.get(k1).get(files, {}).get(cif, {}).get(file) is an
\* attribute lookup on None when the crystal's ligand_cif entry is null
CifLookupRaises(crystal) ==
    /\ "crystallographic_files" \in DOMAIN crystal
    /\ "ligand_cif" \in DOMAIN crystal["crystallographic_files"]
    /\ crystal["crystallographic_files"]["ligand_cif"] = None

\* the paths an extracted entry receives (the crystal has a ligand cif)
ExtractedPaths(k1, e) ==
    [pdb_apo |-> <<k1, e, "apo">>,
     pdb_apo_solv |-> <<k1, e, "apo_solv">>,
     pdb_apo_desolv |-> <<k1, e, "apo_desolv">>,
     ligand_mol |-> <<k1, e, "ligand.mol">>,
     ligand_pdb |-> <<k1, e, "ligand.pdb">>,
     ligand_smiles |-> <<k1, e, "smiles">>]

\* num_extract_errors = self._extract_components(crystals, new_meta), and the
\* error logged for a non-zero count (lines 600-604): outcome tells, for the
\* aligned structure of each dataset, whether the file is there and valid
ExtractComponents(outcome) ==
    /\ pc = "a_assembled"
    /\ LET crystals == meta["crystals"]
           new_meta == al.new_meta
           walked == Extracted(new_meta)
           failed == {k1 \in walked : outcome[k1] # "ok"}
           num_errors == Cardinality(failed) * Cardinality(EntryKeys)
       IN  IF \E k1 \in walked : CifLookupRaises(crystals[k1])
           THEN /\ pc' = "raised"
                /\ UNCHANGED <<al, errors>>
           ELSE /\ al' = SetKey(SetKey(al, "num_extract_errors", num_errors),
                            "new_meta",
                            [k \in DOMAIN new_meta |->
                                IF k \in walked \ failed
                                THEN [new_meta[k] EXCEPT ![META_ALIGNED_FILES] =
                                        [e \in DOMAIN @ |-> ExtractedPaths(k, e) @@ @[e]]]
                                ELSE new_meta[k]])
                /\ errors' = errors
                     \cup (IF \E k1 \in failed : outcome[k1] = "missing"
                           THEN {"can't find file"} ELSE {})
                     \cup (IF \E k1 \in failed : outcome[k1] = "invalid"
                           THEN {"validation errors - can't extract components"} ELSE {})
                     \cup (IF num_errors # 0
                           THEN {"there were problems extracting components"} ELSE {})
                /\ pc' = "a_extracted"
    /\ UNCHANGED <<fs, config, runs, meta, version_dir, meta_history, all_xtals,
                   new_or_updated_xtals, warnings, cli, store>>

\* the sections _write_output copies from aligner_dict into collator_dict
CopiedSections ==
    {"xtalforms", "conformer_sites", "canonical_sites", "xtalform_sites"}

\* self._write_output(input_meta, new_meta): aligner_tmp.yaml holds new_meta;
\* the four sections and, for every crystal with aligned files, its assigned
\* xtalform and aligned files are put into the input metadata, which is
\* written as the alignment metadata document
AlignerWriteOutput ==
    /\ pc = "a_extracted"
    /\ LET d == CHOOSE x \in version_dir : TRUE
           aligner_dict == al.new_meta
           xtals == meta["crystals"]
           with_files == {k \in DOMAIN aligner_dict :
                            META_ALIGNED_FILES \in DOMAIN aligner_dict[k]}
           collator_dict ==
               [k \in DOMAIN meta \cup CopiedSections |->
                   IF k \in CopiedSections THEN aligner_dict[k]
                   ELSE IF k = "crystals"
                   THEN [t \in DOMAIN xtals |->
                           IF t \in with_files
                           THEN [assigned_xtalform |-> aligner_dict[t]["assigned_xtalform"],
                                 aligned_files |-> aligner_dict[t][META_ALIGNED_FILES]]
                                @@ xtals[t]
                           ELSE xtals[t]]
                   ELSE meta[k]]
       IN  /\ fs' = [fs EXCEPT ![d] =
                        SetKey(SetKey(fs[d], "aligner_tmp.yaml", aligner_dict),
                               METADATA_ALIGN_FILENAME, collator_dict)]
           /\ meta' = collator_dict
           /\ warnings' = warnings \cup
                {<<"not found in input", k>> : k \in with_files \ DOMAIN xtals}
    /\ pc' = "a_written"
    /\ UNCHANGED <<config, runs, version_dir, meta_history, all_xtals,
                   new_or_updated_xtals, errors, cli, store, al>>

NextAligner ==
    \/ \E validate \in BOOLEAN, num_errors \in ErrorCounts :
            Main(FirstUpload, validate, num_errors)
    \/ ReadVersions
    \/ CopyFiles
    \/ MungeHistory
    \/ WriteMetadata
    \/ CopyConfig
    \/ \E d \in 1..MaxVersion, validate \in BOOLEAN, xtalforms_exists \in BOOLEAN :
            AlignerMain(d, validate, xtalforms_exists)
    \/ AlignerRun
    \/ PerformAlignments
    \/ \E aligned \in SUBSET Tags : Update(aligned)
    \/ AssembleMeta
    \/ \E outcome \in [Tags -> Outcomes] : ExtractComponents(outcome)
    \/ AlignerWriteOutput
    \/ Exit

SpecAligner == InitAligner /\ [][NextAligner]_vars

----------------------------------------------------------------------------
(* Vocabulary of the properties *)

\* _munge_history has returned
AfterMunge == pc \in {"munged", "written", "done"}

\* _munge_history has returned or has raised
MungeLeft == AfterMunge \/ pc = "raised"

\* _read_versions has returned a version directory
VersionSelected == pc \in {"versions_read", "copied", "munged", "raised", "written", "done"}

CurrentTags == DOMAIN meta["crystals"]

HistoryTags ==
    UNION {DOMAIN meta_history[i]["crystals"] : i \in DOMAIN meta_history}

\* the record of tag t in the highest-numbered historical version holding it
LatestHistorical(t) ==
    meta_history[Max({i \in DOMAIN meta_history :
                        t \in DOMAIN meta_history[i]["crystals"]})]["crystals"][t]

HasDate(xtal_data) ==
    "last_updated" \in DOMAIN xtal_data /\ xtal_data["last_updated"] # None

Deprecated == DOMAIN Deprecations(config)

\* the current timestamp of t is strictly greater than the historical one
Newer(t) ==
    to_datetime(meta["crystals"][t]["last_updated"])
        > to_datetime(LatestHistorical(t)["last_updated"])

----------------------------------------------------------------------------
(* C1 *)

\* C1 as stated: a tag of the current upload that no historical document
\* holds has status 'new' after _munge_history and is in new_or_updated_xtals
C1_AbsentFromHistoryIsNew ==
    AfterMunge =>
        \A t \in CurrentTags \ HistoryTags :
            /\ all_xtals[t]["status"] = "new"
            /\ t \in DOMAIN new_or_updated_xtals

\* C1 amended: a tag of the current upload that no historical document holds
\* and that the configured deprecations do not list has status 'new' after
\* _munge_history and is in new_or_updated_xtals
C1_AbsentFromHistoryIsNewUnlessDeprecated ==
    AfterMunge =>
        \A t \in (CurrentTags \ HistoryTags) \ Deprecated :
            /\ all_xtals[t]["status"] = "new"
            /\ t \in DOMAIN new_or_updated_xtals

C1_Witness ==
    /\ pc = "munged"
    /\ meta_history # <<>>
    /\ HistoryTags # {}
    /\ (CurrentTags \ HistoryTags) \ Deprecated # {}

----------------------------------------------------------------------------
(* C2 *)

\* C2 as stated: a tag in history and in the current upload, both timestamps
\* defined and the current one strictly greater, has status 'supersedes' and
\* is in new_or_updated_xtals
C2_NewerSupersedes ==
    AfterMunge =>
        \A t \in CurrentTags \cap HistoryTags :
            (HasDate(meta["crystals"][t]) /\ HasDate(LatestHistorical(t)) /\ Newer(t))
            => /\ all_xtals[t]["status"] = "supersedes"
               /\ t \in DOMAIN new_or_updated_xtals

\* C2 amended: the same for a tag the configured deprecations do not list
C2_NewerSupersedesUnlessDeprecated ==
    AfterMunge =>
        \A t \in (CurrentTags \cap HistoryTags) \ Deprecated :
            (HasDate(meta["crystals"][t]) /\ HasDate(LatestHistorical(t)) /\ Newer(t))
            => /\ all_xtals[t]["status"] = "supersedes"
               /\ t \in DOMAIN new_or_updated_xtals

C2_Witness ==
    /\ pc = "munged"
    /\ \E t \in (CurrentTags \cap HistoryTags) \ Deprecated :
          /\ LatestHistorical(t)["last_updated"] = <<2024, 1, 1>>
          /\ meta["crystals"][t]["last_updated"] = <<2024, 2, 1>>

----------------------------------------------------------------------------
(* C3 *)

\* C3 as stated: a tag in history and in the current upload, both timestamps
\* defined and the current one equal or older, has status 'unchanged' and is
\* not in new_or_updated_xtals
C3_NotNewerUnchanged ==
    AfterMunge =>
        \A t \in CurrentTags \cap HistoryTags :
            (HasDate(meta["crystals"][t]) /\ HasDate(LatestHistorical(t)) /\ ~Newer(t))
            => /\ all_xtals[t]["status"] = "unchanged"
               /\ t \notin DOMAIN new_or_updated_xtals

\* C3 amended: the same for a tag the configured deprecations do not list
C3_NotNewerUnchangedUnlessDeprecated ==
    AfterMunge =>
        \A t \in (CurrentTags \cap HistoryTags) \ Deprecated :
            (HasDate(meta["crystals"][t]) /\ HasDate(LatestHistorical(t)) /\ ~Newer(t))
            => /\ all_xtals[t]["status"] = "unchanged"
               /\ t \notin DOMAIN new_or_updated_xtals

\* an equal and an older timestamp both occur
C3_Witness ==
    /\ pc = "munged"
    /\ \E t, u \in (CurrentTags \cap HistoryTags) \ Deprecated :
          /\ meta["crystals"][t]["last_updated"] = LatestHistorical(t)["last_updated"]
          /\ LatestHistorical(u)["last_updated"] = <<2024, 2, 1>>
          /\ meta["crystals"][u]["last_updated"] = <<2024, 1, 1>>

----------------------------------------------------------------------------
(* C4 *)

\* C4 as stated: when the historical or the current timestamp of a tag held
\* by both is missing, _munge_history completes, marks the tag 'supersedes',
\* puts it in new_or_updated_xtals and records a warning
C4_MissingDateSupersedesWithWarning ==
    MungeLeft =>
        \A t \in CurrentTags \cap HistoryTags :
            (~HasDate(meta["crystals"][t]) \/ ~HasDate(LatestHistorical(t)))
            => /\ pc # "raised"
               /\ all_xtals[t]["status"] = "supersedes"
               /\ t \in DOMAIN new_or_updated_xtals
               /\ \E w \in warnings : w[1] = "Dates not defined" /\ w[2] = t

----------------------------------------------------------------------------
(* C5 *)

\* C5 as stated: every tag of the configured deprecations that is in
\* all_xtals, from the current upload or from history alone, has status
\* 'deprecated' and the configured reason
C5_DeprecationAlwaysApplied ==
    AfterMunge =>
        \A t \in Deprecated \cap DOMAIN all_xtals :
            /\ all_xtals[t]["status"] = "deprecated"
            /\ "reason" \in DOMAIN all_xtals[t]
            /\ all_xtals[t]["reason"] = Deprecations(config)[t]

----------------------------------------------------------------------------
(* C6 *)

\* C6 as stated: new_or_updated_xtals holds exactly the tags of the current
\* upload whose final status is 'new' or 'supersedes'
C6_SubsetIsNewOrSupersedes ==
    AfterMunge =>
        DOMAIN new_or_updated_xtals =
            {t \in CurrentTags : all_xtals[t]["status"] \in {"new", "supersedes"}}

----------------------------------------------------------------------------
(* C7 *)

\* C7: after _munge_history the keys of all_xtals are exactly the tags of the
\* historical documents and of the current upload; a deprecation removes none
C7_AllXtalsKeysAreUnion ==
    AfterMunge => DOMAIN all_xtals = HistoryTags \cup CurrentTags

\* a deprecated tag of the current upload beside a tag only history holds
C7_Witness ==
    /\ pc = "munged"
    /\ HistoryTags \ CurrentTags # {}
    /\ CurrentTags \cap Deprecated # {}

----------------------------------------------------------------------------
(* C8 *)

\* C8 as stated: the working version is the highest index for which a version
\* directory exists
C8_SelectsHighestExisting ==
    VersionSelected => version_dir = {Max(DOMAIN fs)}

\* C8 amended: the working version is upload_N for the largest N such that
\* upload_1 .. upload_N all exist (the highest existing index when the
\* version directories are gap-free)
C8_SelectsEndOfGapFreeRun ==
    VersionSelected =>
        \E n \in DOMAIN fs :
            /\ version_dir = {n}
            /\ \A k \in 1..n : k \in DOMAIN fs
            /\ n + 1 \notin DOMAIN fs

C8_Witness ==
    /\ pc = "versions_read"
    /\ DOMAIN fs = {1, 2}
    /\ version_dir = {2}

----------------------------------------------------------------------------
(* C9 *)

\* C9 as stated: no step modifies a version directory for which a
\* higher-numbered version directory exists
C9_OnlyHighestWritten ==
    [][\A v \in DOMAIN fs :
          (\E w \in DOMAIN fs : w > v) => (v \in DOMAIN fs' /\ fs'[v] = fs[v])]_vars

\* C9 amended: the steps of Collator.run create and remove no version
\* directory and modify only the working one, upload_N for the largest N such
\* that upload_1 .. upload_N all exist; no directory numbered below N changes
C9_OnlyWorkingVersionWritten ==
    [][pc \notin {"idle"} =>
          /\ DOMAIN fs' = DOMAIN fs
          /\ \A v \in DOMAIN fs :
                fs'[v] # fs[v] =>
                    /\ version_dir = {v}
                    /\ \A k \in 1..v : k \in DOMAIN fs
                    /\ v + 1 \notin DOMAIN fs]_vars

\* the second upload has been written beside a collated first one
C9_Witness ==
    /\ pc = "done"
    /\ version_dir = {2}
    /\ _METADATA_FILENAME \in DOMAIN fs[1]
    /\ _METADATA_FILENAME \in DOMAIN fs[2]

----------------------------------------------------------------------------
(* C10 *)

\* C10: with no version directory under the output root, run logs an error
\* and returns None, and no step of it creates a directory or writes a file
C10_NoVersionDirFailsWithoutWriting ==
    [][(DOMAIN fs = {} /\ pc \in {"run", "failed"}) =>
          /\ fs' = fs
          /\ pc' \in {"failed", "idle"}
          /\ pc' = "failed" => "No version directory found" \in errors']_vars

C10_Witness ==
    /\ pc = "failed"
    /\ DOMAIN fs = {}
    /\ CurrentTags # {}
    /\ errors # {}

----------------------------------------------------------------------------
(* C11 *)

\* a version below the working one holds no metadata document
HistoryGap ==
    \E v \in 1..(WorkingVersion(DOMAIN fs) - 1) :
        _METADATA_FILENAME \notin DOMAIN fs[v]

\* C11: when the metadata document of some version below the working version
\* is missing, run() reports the missing document, selects no version
\* directory and returns without having changed anything on disk: no file is
\* copied, nothing is deleted, no document is written, and the process ends.
C11_HistoryGapFailsRun ==
    [][/\ (pc = "run" /\ WorkingVersion(DOMAIN fs) >= 1 /\ HistoryGap) =>
            /\ pc' = "failed"
            /\ fs' = fs
            /\ version_dir' = {}
            /\ "Metadata file not found" \in errors'
       /\ pc = "failed" => (fs' = fs /\ pc' = "idle")]_vars

\* a run has failed on a gap that lies below a version holding its document
C11_Witness ==
    /\ pc = "failed"
    /\ "Metadata file not found" \in errors
    /\ WorkingVersion(DOMAIN fs) = 3
    /\ _METADATA_FILENAME \in DOMAIN fs[1]
    /\ _METADATA_FILENAME \notin DOMAIN fs[2]
    /\ fs[3] = EmptyDict

----------------------------------------------------------------------------
(* C14, C15 *)

\* the working version directory of the running process
WorkingDir == fs[CHOOSE v \in version_dir : TRUE]

\* C14: after a successful run, every dataset of the current upload, whatever
\* its status, has for every file the upload declares (pdb, mtz, cif that is
\* not null) a copy <tag>.<ext> in its own subdirectory of the working
\* version directory, holding the bytes of the declared input file.
C14_EveryDeclaredFileCopied ==
    pc = "done" =>
        \A t \in CurrentTags, key \in FileKeys :
            SoakDBFiles(t)[key] # None =>
                /\ t \in DOMAIN WorkingDir["crystallographic"]
                /\ OutputName(t, key) \in DOMAIN WorkingDir["crystallographic"][t]
                /\ WorkingDir["crystallographic"][t][OutputName(t, key)]
                       = InputBytes(prepend_base(SoakDBFiles(t)[key]))

\* a run has completed with an unchanged and a deprecated dataset
C14_Witness ==
    /\ pc = "done"
    /\ \E t \in CurrentTags : meta["crystals"][t]["status"] = "unchanged"
    /\ \E t \in CurrentTags : meta["crystals"][t]["status"] = "deprecated"

\* C15: in the metadata document the run has written into the working
\* version directory, every file entry is None or a {file, sha256} pair
\* whose file is the location of the copy inside that directory and whose
\* sha256 is the digest of the copy found there.
C15_FileEntriesNameTheCopies ==
    pc \in {"written", "done"} =>
        LET v == CHOOSE x \in version_dir : TRUE
            xtals == WorkingDir[_METADATA_FILENAME]["crystals"]
        IN  \A t \in DOMAIN xtals :
              \A key \in DOMAIN xtals[t]["crystallographic_files"] :
                LET entry == xtals[t]["crystallographic_files"][key]
                IN  \/ entry = None
                    \/ /\ DOMAIN entry = {"file", "sha256"}
                       /\ entry["file"] = OutputPath(v, t, key)
                       /\ t \in DOMAIN WorkingDir["crystallographic"]
                       /\ OutputName(t, key) \in DOMAIN WorkingDir["crystallographic"][t]
                       /\ entry["sha256"] =
                            gen_sha256(WorkingDir["crystallographic"][t][OutputName(t, key)])

\* a document has been written that holds a null entry and a pair
C15_Witness ==
    /\ pc = "written"
    /\ version_dir = {2}
    /\ \E t \in CurrentTags :
            WorkingDir[_METADATA_FILENAME]["crystals"][t]["crystallographic_files"]["ligand_cif"] = None
    /\ \E t \in CurrentTags :
            WorkingDir[_METADATA_FILENAME]["crystals"][t]["crystallographic_files"]["ligand_cif"] # None

----------------------------------------------------------------------------
(* C12, C13, C20: properties of SpecFaults *)

\* C12: when collation is run again and no version directory has been made
\* in between, no step of any run makes or removes a version directory, and
\* every version directory numbered below the working one stays as it was.
C12_RerunKeepsVersions ==
    [][/\ DOMAIN fs' = DOMAIN fs
       /\ \A v \in DOMAIN fs :
            v < WorkingVersion(DOMAIN fs) => fs'[v] = fs[v]]_vars

\* the second of two runs on the same upload has reached its end, the
\* working version directory holding the documents of the first
C12_Witness ==
    /\ pc = "done"
    /\ runs = 2
    /\ version_dir = {2}
    /\ CurrentTags = Tags
    /\ fs[2] = CollatedDir(2, <<fs[1][_METADATA_FILENAME]>>,
                           CHOOSE m \in FaultMetas : DOMAIN m["crystals"] = Tags,
                           config)

\* after the step, a file the upload declares has no copy in cryst_dir
DeclaredFileNotCopied ==
    LET v == CHOOSE x \in version_dir : TRUE
        dir == fs'[v]["crystallographic"]
    IN  \E t \in DOMAIN meta["crystals"], key \in FileKeys :
            /\ meta["crystals"][t]["crystallographic_files"][key] # None
            /\ \/ t \notin DOMAIN dir
               \/ OutputName(t, key) \notin DOMAIN dir[t]

\* after the step, cryst_dir holds nothing that comes after a missing copy:
\* at most one crystal's directory lacks a declared file, and inside it no
\* file is present that is handled after one that is absent
NothingIngestedAfterFailure ==
    LET v == CHOOSE x \in version_dir : TRUE
        dir == fs'[v]["crystallographic"]
        files(t) == meta["crystals"][t]["crystallographic_files"]
        declared(t) == {k \in FileKeys : files(t)[k] # None}
        copied(t) == {k \in declared(t) : OutputName(t, k) \in DOMAIN dir[t]}
    IN  /\ Cardinality({t \in DOMAIN dir : copied(t) # declared(t)}) <= 1
        /\ \A t \in DOMAIN dir :
              \A k1 \in declared(t), k2 \in copied(t) :
                  KeyIndex(k1) < KeyIndex(k2) => k1 \in copied(t)

\* C13: when the copy of a declared file fails, _copy_files stops there (no
\* later file of the crystal and no later crystal is ingested) and run() does
\* not go on: the process ends without any further write, so no
\* metadata.yaml, all_xtals or new_xtals document follows a failed copy.
C13_CopyFailureStopsRun ==
    [][/\ (pc = "versions_read" /\ pc' # pc /\ DeclaredFileNotCopied) =>
            (pc' = "copy_failed" /\ NothingIngestedAfterFailure)
       /\ pc = "copy_failed" => (fs' = fs /\ pc' = "idle")]_vars

\* the copy of the cif of ABC123 has failed after XYZ999 had been ingested,
\* in a version directory that holds the documents of an earlier run
C13_Witness ==
    /\ pc = "copy_failed"
    /\ _METADATA_FILENAME \in DOMAIN WorkingDir
    /\ DOMAIN WorkingDir["crystallographic"] = Tags
    /\ DOMAIN WorkingDir["crystallographic"]["ABC123"] =
            {OutputName("ABC123", "xtal_pdb"), OutputName("ABC123", "xtal_mtz")}

\* C20 as stated: whenever the process may die, each document of a version
\* directory holds its complete earlier content or its complete new content,
\* never a part of a write
C20_NoPartialDocument ==
    \A v \in DOMAIN fs :
        \A i \in DOMAIN WrittenDocuments :
            WrittenDocuments[i] \in DOMAIN fs[v] =>
                fs[v][WrittenDocuments[i]] # PartialDocument

----------------------------------------------------------------------------
(* C16 .. C19: properties of SpecAligner *)

\* the process is inside run(), or run() has ended
InsideRun == pc \notin {"idle", "exit1", "validated"}

\* C16: for the collator and for the aligner alike, run() is entered only
\* when --validate is off and validate() has reported no error; with
\* --validate off and at least one error the process is at exit(1) and at no
\* step of run(); with --validate on the process is never inside run().
C16_RunOnlyAfterCleanValidation ==
    /\ InsideRun => (~cli.validate /\ cli.num_errors = 0)
    /\ (cli.command # "none" /\ ~cli.validate /\ cli.num_errors > 0) => pc = "exit1"
    /\ (cli.command # "none" /\ cli.validate) => pc = "validated"
    /\ pc \in {"exit1", "validated"} => (meta = EmptyDict /\ al = EmptyDict)

\* the aligner is inside run() on a version directory the collator has
\* completed, a collator process having exited with code 1 before
C16_Witness ==
    /\ cli.command = "aligner"
    /\ pc = "a_started"
    /\ runs = 2
    /\ _CONFIG_FILENAME \in DOMAIN fs[2]

\* the roots of the running alignment
CurrentRoot == CHOOSE d \in version_dir : TRUE

PreviousRoot == CHOOSE v \in DOMAIN store : VersionPath(v) \in al.source

\* the value the update is handed for a category
Handed(c) == IF c = "alignments" THEN al.alignments ELSE al.handed[c]

\* C17 as stated: with a previous root and a current root that both hold
\* entries, every key found in both roots (alignment-output records and each
\* mapping category) has the current root's value in what _update is handed
C17_CurrentRootWins ==
    (pc = "a_updated" /\ al.source # {}) =>
        \A c \in HandedCategories \cup {"alignments"} :
            \A k \in DOMAIN store[PreviousRoot][c] \cap DOMAIN store[CurrentRoot][c] :
                /\ k \in DOMAIN Handed(c)
                /\ Handed(c)[k] = store[CurrentRoot][c][k]

\* C18 as stated: with a populated previous root and an empty current root,
\* every alignment-output record and every entry of every mapping category
\* of the previous root is in what _update is handed, with the same value
C18_PreviousRootHandedWhole ==
    (/\ pc = "a_updated"
     /\ al.source # {}
     /\ PreviousRoot # CurrentRoot
     /\ \A c \in StoreCategories : store[CurrentRoot][c] = EmptyDict) =>
        \A c \in MappingCategories \cup {"alignments"} :
            \A k \in DOMAIN store[PreviousRoot][c] :
                /\ c = "alignments" \/ c \in DOMAIN al.handed
                /\ k \in DOMAIN Handed(c)
                /\ Handed(c)[k] = store[PreviousRoot][c][k]

\* C19 as stated: new_datasets is the set of the crystals whose status is
\* 'new' or 'supersedes'
C19_NewDatasetsAreNewOrSupersedes ==
    pc = "a_updated" =>
        al.new_datasets =
            {t \in DOMAIN meta["crystals"] :
                meta["crystals"][t]["status"] \in {"new", "supersedes"}}

----------------------------------------------------------------------------
(* C24 *)

\* C24 as stated: during a run of the collator the version directory is
\* changed (a file copied in, cryst_dir removed) only once the
\* classification of the datasets has completed
C24_NoDiskChangeBeforeClassification ==
    [][(cli.command = "collator" /\ fs' # fs) => AfterMunge]_vars

----------------------------------------------------------------------------
(* C25, C27: properties of SpecHistory *)

\* C25: once _munge_history has returned, all_xtals holds exactly the tags
\* of the historical documents and of the current upload; the record of a
\* tag of the current upload is the current (classified) record, whole, and
\* the record of any other tag is, whole and unmodified, its record in the
\* highest-numbered historical document that holds the tag.
C25_LastDocumentWins ==
    AfterMunge =>
        /\ DOMAIN all_xtals = HistoryTags \cup CurrentTags
        /\ \A t \in DOMAIN all_xtals :
              all_xtals[t] = IF t \in CurrentTags
                             THEN meta["crystals"][t]
                             ELSE LatestHistorical(t)

\* a tag absent from the current upload has differing records in the two
\* historical documents, and another tag comes from the current upload
C25_Witness ==
    /\ AfterMunge
    /\ Len(meta_history) = 2
    /\ CurrentTags # {}
    /\ \E t \in HistoryTags \ CurrentTags :
          /\ t \in DOMAIN meta_history[1]["crystals"]
          /\ t \in DOMAIN meta_history[2]["crystals"]
          /\ meta_history[1]["crystals"][t] # meta_history[2]["crystals"][t]

\* C27: a tag held by the metadata document of any version below the working
\* one is never classified 'new' by the run: its status is 'supersedes',
\* 'unchanged' or 'deprecated'.
C27_KnownTagNeverNew ==
    AfterMunge =>
        \A t \in CurrentTags \cap HistoryTags :
            meta["crystals"][t]["status"] \in {"supersedes", "unchanged", "deprecated"}

\* a tag of the current upload is held by upload_1 only, not by upload_2
C27_Witness ==
    /\ AfterMunge
    /\ Len(meta_history) = 2
    /\ \E t \in CurrentTags :
          /\ t \in DOMAIN meta_history[1]["crystals"]
          /\ t \notin DOMAIN meta_history[2]["crystals"]
          /\ meta["crystals"][t]["status"] = "unchanged"

----------------------------------------------------------------------------
(* C26, C28: properties of SpecAligner *)

\* C26 as stated: when the metadata records no previous output directory,
\* _perform_alignments loads every category from the current root, links
\* nothing and reaches the call of _update; and old data is linked only when
\* a previous root is given and is not the current root
C26_PreviousRootOptional ==
    [][/\ (/\ pc = "a_started"
           /\ meta["crystals"] # EmptyDict
           /\ PREVIOUS_OUTPUT_DIR \notin DOMAIN meta) =>
            /\ pc' = "a_updated"
            /\ al'.source = {}
            /\ ~al'.symlinked
            /\ \A c \in HandedCategories :
                  al'.handed[c] = LoadDocument(VersionPath(CurrentRoot), c)
       /\ (pc = "a_started" /\ pc' = "a_updated" /\ al'.symlinked) =>
            /\ al'.source # {}
            /\ al'.source # {VersionPath(CurrentRoot)}]_vars

\* the root the categories of the running alignment are loaded from
LoadedFrom ==
    IF al.source # {} THEN CHOOSE p \in al.source : TRUE
    ELSE VersionPath(CurrentRoot)

\* C28 as stated: every mapping category is loaded from its own document
\* (canonical_site_transforms from the canonical_site_transforms document)
\* and every loaded category is an argument of _update
C28_EachCategoryFromItsDocument ==
    pc = "a_updated" =>
        \A c \in MappingCategories :
            /\ al.loaded[c] = LoadDocument(LoadedFrom, c)
            /\ c \in DOMAIN al.handed
            /\ al.handed[c] = al.loaded[c]

\* the alignment metadata document of the working version
AlignDocument == fs[CurrentRoot][METADATA_ALIGN_FILENAME]

\* the datasets of the run with an alignment-output record
WithRecord == DOMAIN meta["crystals"] \cap DOMAIN al.alignments

\* C21: _extract_components never aborts on a missing or invalid aligned
\* structure: it returns the number of entries that failed, every entry that
\* did not fail has its apo, apo_solv and apo_desolv paths, and the document
\* is written whatever the count
C21_ExtractionCountsFailures ==
    [][ /\ pc = "a_assembled" =>
            /\ pc' = "a_extracted"
            /\ \E failed \in SUBSET WithRecord :
                  /\ al'.num_extract_errors = Cardinality(failed) * Cardinality(EntryKeys)
                  /\ \A k1 \in WithRecord \ failed :
                        \A e \in EntryKeys :
                            {"pdb_apo", "pdb_apo_solv", "pdb_apo_desolv"}
                                \subseteq DOMAIN al'.new_meta[k1][META_ALIGNED_FILES][e]
                  /\ \A k1 \in failed :
                        \A e \in EntryKeys :
                            "pdb_apo" \notin DOMAIN al'.new_meta[k1][META_ALIGNED_FILES][e]
        /\ pc = "a_extracted" => pc' = "a_written" ]_vars

\* C22: in the alignment metadata document a dataset without an
\* alignment-output record has neither assigned_xtalform nor aligned_files,
\* and skipping it logs no error; a dataset with a record has both
C22_RecordDecidesAlignedFiles ==
    /\ pc \in {"a_assembled", "a_extracted", "a_written"} =>
          \A t \in DOMAIN meta["crystals"] :
              IF t \in DOMAIN al.alignments
              THEN /\ t \in DOMAIN al.new_meta
                   /\ {"assigned_xtalform", META_ALIGNED_FILES} \subseteq DOMAIN al.new_meta[t]
              ELSE t \notin DOMAIN al.new_meta
    /\ pc = "a_assembled" => errors = {}
    /\ pc = "a_written" =>
          \A t \in DOMAIN AlignDocument["crystals"] :
              IF t \in DOMAIN al.alignments
              THEN {"assigned_xtalform", META_ALIGNED_FILES}
                      \subseteq DOMAIN AlignDocument["crystals"][t]
              ELSE {"assigned_xtalform", META_ALIGNED_FILES}
                      \cap DOMAIN AlignDocument["crystals"][t] = {}

\* the document is written for a run with one dataset that has a record and
\* one that has none
C22_Witness ==
    /\ pc = "a_written"
    /\ WithRecord # {}
    /\ DOMAIN meta["crystals"] \ DOMAIN al.alignments # {}
    /\ \E t \in WithRecord :
          AlignDocument["crystals"][t][META_ALIGNED_FILES] # EmptyDict

\* C23: the alignment metadata document holds xtalforms, conformer_sites,
\* canonical_sites, xtalform_sites and a transforms section with the
\* observation-to-conformer, conformer-to-canonical and canonical-to-global
\* tables
C23_DocumentHasTransforms ==
    pc = "a_written" =>
        /\ CopiedSections \subseteq DOMAIN AlignDocument
        /\ "transforms" \in DOMAIN AlignDocument
        /\ Cardinality(DOMAIN AlignDocument["transforms"]) = 3

============================================================================
